---- MODULE Spec2Model ----
(***************************************************************************)
(* MAHORAGA edge gateway: the router (authorization guard, CORS resolver,  *)
(* session-harness dispatch, scheduled trigger) and the Z.AI completion    *)
(* provider, as state machines.                                            *)
(*                                                                         *)
(* A JavaScript string whose characters the code inspects (startsWith,     *)
(* slice, split, trim, includes, toLowerCase, charCodeAt, replace) is a    *)
(* sequence of one-character strings.  Text the code only passes along     *)
(* (bodies, methods, header names) is a plain TLA+ string.                 *)
(***************************************************************************)
EXTENDS Integers, Sequences, FiniteSets, TLC

VARIABLES
  env,          \* Env: MAHORAGA_API_TOKEN, CORS_ALLOWED_ORIGINS, ENVIRONMENT
  phase,        \* position of the fetch handler
  request,      \* the inbound Request of the current invocation
  corsHeaders,  \* fetch's local corsHeaders, computed before routing
  route,        \* the branch of fetch that was taken
  forwarded,    \* the request handed to a collaborator, awaited by fetch
  downstream,   \* the collaborator's response, once it has answered
  response,     \* the Response fetch returned
  trace,        \* guard evaluations and collaborator invocations, in order
  triggers,     \* scheduled: the invocations that have returned
  jobs,         \* handleCronEvent runs, one entry per start
  pending,      \* promises registered with ctx.waitUntil
  provider,     \* the ZAIProvider instance (version, this.model, ...)
  call,         \* position of complete and its params
  wire,         \* the requests complete issued through global fetch
  reply,        \* the backend's answer to the awaited request
  outcome,      \* what complete returned or threw
  diagnostics   \* console levels written during the call

routerVars == <<env, phase, request, corsHeaders, route, forwarded, downstream, response, trace>>
cronVars == <<triggers, jobs, pending>>
providerVars == <<provider, call, wire, reply, outcome, diagnostics>>
vars == <<routerVars, cronVars, providerVars>>

\* JavaScript undefined / null, and a Headers.get miss.
Undefined == <<"undefined">>

-----------------------------------------------------------------------------
(* String primitives *)

\* String.prototype.startsWith
StartsWith(s, p) == Len(s) >= Len(p) /\ SubSeq(s, 1, Len(p)) = p

\* String.prototype.slice(n), n >= 0
Slice(s, n) == SubSeq(s, n + 1, Len(s))

\* String.prototype.indexOf, 1-based; 0 when absent
IndexOf(s, p) ==
  LET hits == {i \in 1..(Len(s) - Len(p) + 1) : SubSeq(s, i, i + Len(p) - 1) = p}
  IN IF hits = {} THEN 0 ELSE CHOOSE i \in hits : \A j \in hits : i <= j

\* String.prototype.includes
Includes(s, p) == IndexOf(s, p) # 0

\* String.prototype.replace(pattern, replacement) with a string pattern:
\* only the first occurrence is replaced.
Replace(s, p, r) ==
  LET i == IndexOf(s, p)
  IN IF i = 0 THEN s ELSE SubSeq(s, 1, i - 1) \o r \o SubSeq(s, i + Len(p), Len(s))

\* String.prototype.split(sep) with a one-character separator
RECURSIVE Split(_, _)
Split(s, sep) ==
  LET i == IndexOf(s, <<sep>>)
  IN IF i = 0 THEN <<s>>
     ELSE <<SubSeq(s, 1, i - 1)>> \o Split(SubSeq(s, i + 1, Len(s)), sep)

Whitespace == {" "}

RECURSIVE TrimStart(_)
TrimStart(s) == IF s # <<>> /\ s[1] \in Whitespace THEN TrimStart(Tail(s)) ELSE s

RECURSIVE TrimEnd(_)
TrimEnd(s) ==
  IF s # <<>> /\ s[Len(s)] \in Whitespace THEN TrimEnd(SubSeq(s, 1, Len(s) - 1)) ELSE s

\* String.prototype.trim
Trim(s) == TrimEnd(TrimStart(s))

\* Array.prototype.includes
ArrayIncludes(arr, x) == \E i \in 1..Len(arr) : arr[i] = x

LowerOf ==
  ("A" :> "a") @@ ("C" :> "c") @@ ("D" :> "d") @@ ("E" :> "e") @@ ("G" :> "g") @@
  ("I" :> "i") @@ ("L" :> "l") @@ ("M" :> "m") @@ ("N" :> "n") @@ ("P" :> "p") @@
  ("T" :> "t") @@ ("U" :> "u")

\* String.prototype.toLowerCase
ToLowerCase(s) == [i \in 1..Len(s) |-> IF s[i] \in DOMAIN LowerOf THEN LowerOf[s[i]] ELSE s[i]]

\* UTF-16 code units of the characters credentials are written in
CodeOf ==
  ("a" :> 97) @@ ("b" :> 98) @@ ("c" :> 99) @@ ("B" :> 66) @@ ("e" :> 101) @@
  ("r" :> 114) @@ ("s" :> 115) @@ ("i" :> 105) @@ (" " :> 32)

\* String.prototype.charCodeAt(i), i 0-based in the source, 1-based here
CharCodeAt(s, i) == CodeOf[s[i]]

RECURSIVE BitXor(_, _)
BitXor(a, b) ==
  IF a = 0 /\ b = 0 THEN 0
  ELSE (((a % 2) + (b % 2)) % 2) + 2 * BitXor(a \div 2, b \div 2)

RECURSIVE BitOr(_, _)
BitOr(a, b) ==
  IF a = 0 /\ b = 0 THEN 0
  ELSE (IF a % 2 = 1 \/ b % 2 = 1 THEN 1 ELSE 0) + 2 * BitOr(a \div 2, b \div 2)

-----------------------------------------------------------------------------
(* Authorization guard *)

\* the for loop of constantTimeCompare: mismatch |= a.charCodeAt(i) ^ b.charCodeAt(i)
RECURSIVE MismatchLoop(_, _, _, _)
MismatchLoop(a, b, i, mismatch) ==
  IF i > Len(a) THEN mismatch
  ELSE MismatchLoop(a, b, i + 1, BitOr(mismatch, BitXor(CharCodeAt(a, i), CharCodeAt(b, i))))

\* a comparator that checks the lengths and never accumulates a mismatch
constantTimeCompareLengthOnly(a, b) == Len(a) = Len(b)

constantTimeCompare(a, b) ==
  IF Len(a) # Len(b) THEN FALSE
  ELSE MismatchLoop(a, b, 1, 0) = 0

\* Headers.get
HeadersGet(headers, name) == headers[name]

isAuthorized(req, e) ==
  LET token == e.MAHORAGA_API_TOKEN
      authHeader == HeadersGet(req.headers, "Authorization")
  IN IF token = Undefined \/ token = <<>> THEN FALSE
     ELSE IF authHeader = Undefined \/ ~StartsWith(authHeader, <<"B", "e", "a", "r", "e", "r", " ">>) THEN FALSE
     ELSE constantTimeCompare(Slice(authHeader, 7), token)

\* Response header names are case-insensitive: Headers stores them lower-cased.
LowerHeaderNames ==
  {"access-control-allow-origin", "access-control-allow-methods",
   "access-control-allow-headers", "access-control-max-age",
   "access-control-allow-credentials", "content-type", "x-harness"}

HeaderKey ==
  ("Access-Control-Allow-Origin" :> "access-control-allow-origin") @@
  ("Access-Control-Allow-Methods" :> "access-control-allow-methods") @@
  ("Access-Control-Allow-Headers" :> "access-control-allow-headers") @@
  ("Access-Control-Max-Age" :> "access-control-max-age") @@
  ("Content-Type" :> "content-type") @@
  [k \in LowerHeaderNames |-> k]

\* new Headers(init) over a plain object or another Headers
NewHeaders(init) ==
  LET keys == {HeaderKey[k] : k \in DOMAIN init}
  IN [k \in keys |-> init[CHOOSE n \in DOMAIN init : HeaderKey[n] = k]]

\* an object literal with no properties
EmptyObject == [k \in {} |-> <<>>]

\* { "Content-Type": "application/json", ...corsHeaders }
unauthorizedResponse(cors) ==
  [status |-> 401, statusText |-> "",
   headers |-> NewHeaders(cors @@ ("Content-Type" :> <<"application/json">>)),
   body |-> <<"{\"error\":\"Unauthorized. Requires: Authorization: Bearer <MAHORAGA_API_TOKEN>\"}">>]

-----------------------------------------------------------------------------
(* CORS policy resolver *)

\* env.CORS_ALLOWED_ORIGINS?.split(",").map((o) => o.trim()) || []
allowedOriginsUntrimmed(e) ==
  IF e.CORS_ALLOWED_ORIGINS = Undefined THEN <<>>
  ELSE Split(e.CORS_ALLOWED_ORIGINS, ",")

allowedOrigins(e) ==
  IF e.CORS_ALLOWED_ORIGINS = Undefined THEN <<>>
  ELSE LET parts == Split(e.CORS_ALLOWED_ORIGINS, ",")
       IN [i \in 1..Len(parts) |-> Trim(parts[i])]

\* request.headers.get("Origin") || ""
originOf(req) ==
  LET h == HeadersGet(req.headers, "Origin") IN IF h = Undefined THEN <<>> ELSE h

isLocalhost(origin) ==
  StartsWith(origin, <<"h", "t", "t", "p", ":", "/", "/", "l", "o", "c", "a", "l", "h", "o", "s", "t", ":">>) \/ StartsWith(origin, <<"h", "t", "t", "p", ":", "/", "/", "1", "2", "7", ".", "0", ".", "0", ".", "1", ":">>)

allowHeaders(origin) ==
  ("Access-Control-Allow-Origin" :> origin) @@
  ("Access-Control-Allow-Methods" :> <<"GET, POST, PUT, DELETE, OPTIONS">>) @@
  ("Access-Control-Allow-Headers" :> <<"Content-Type, Authorization">>) @@
  ("Access-Control-Max-Age" :> <<"86400">>)

\* a resolver that answers a rejected origin with an explicit deny value
getCorsHeadersDeny(req, e) ==
  LET origin == originOf(req)
  IN IF isLocalhost(origin) \/ ArrayIncludes(allowedOrigins(e), origin)
        \/ ArrayIncludes(allowedOrigins(e), <<"*">>)
     THEN allowHeaders(origin)
     ELSE ("Access-Control-Allow-Origin" :> <<"n", "u", "l", "l">>)

getCorsHeaders(req, e) ==
  LET origin == originOf(req)
  IN IF isLocalhost(origin) \/ ArrayIncludes(allowedOrigins(e), origin)
        \/ ArrayIncludes(allowedOrigins(e), <<"*">>)
     THEN allowHeaders(origin)
     ELSE EmptyObject

-----------------------------------------------------------------------------
(* Session-harness dispatch *)

Harness == <<"h", "a", "r", "n", "e", "s", "s">>

RECURSIVE SkipSlashes(_)
SkipSlashes(s) == IF s # <<>> /\ s[1] = "/" THEN SkipSlashes(Tail(s)) ELSE s

\* new URL(ref, "http://harness") for a non-empty reference made of path
\* characters: "//..." names an authority (further slashes are skipped), "/..."
\* is an absolute path, anything else is resolved against the base path "/".
NewURL(ref) ==
  IF StartsWith(ref, <<"/", "/">>)
  THEN LET rest == SkipSlashes(ref)
           i == IndexOf(rest, <<"/">>)
       IN [host |-> IF i = 0 THEN rest ELSE SubSeq(rest, 1, i - 1),
           pathname |-> IF i = 0 THEN <<"/">> ELSE SubSeq(rest, i, Len(rest)),
           search |-> <<>>]
  ELSE IF StartsWith(ref, <<"/">>)
  THEN [host |-> Harness, pathname |-> ref, search |-> <<>>]
  ELSE [host |-> Harness, pathname |-> <<"/">> \o ref, search |-> <<>>]

\* x || "/status" on strings
OrStatus(x) == IF x = <<>> THEN <<"/", "s", "t", "a", "t", "u", "s">> ELSE x

\* new Request(agentUrl.toString(), { method, headers, body })
DerivedRequest(agentUrl, req) ==
  [url |-> agentUrl, method |-> req.method, headers |-> req.headers, body |-> req.body]

\* an /api branch that forwards the pathname without stripping the prefix
apiRequestUnstripped(req) ==
  DerivedRequest([NewURL(req.url.pathname) EXCEPT !.search = req.url.search], req)

\* the /api branch: agentPath, agentUrl, agentUrl.search = url.search
apiRequest(req) ==
  LET agentPath == OrStatus(Replace(req.url.pathname, <<"/", "a", "p", "i">>, <<>>))
      agentUrl == [NewURL(agentPath) EXCEPT !.search = req.url.search]
  IN DerivedRequest(agentUrl, req)

\* the /agent branch
agentRequest(req) ==
  LET agentPath == OrStatus(Replace(req.url.pathname, <<"/", "a", "g", "e", "n", "t">>, <<>>))
      agentUrl == [NewURL(agentPath) EXCEPT !.search = req.url.search]
  IN DerivedRequest(agentUrl, req)

\* a merge in which a header the harness already set is kept
overlayCorsKeepExisting(headers, cors) ==
  LET newHeaders == NewHeaders(headers)
      set == NewHeaders(cors)
  IN [k \in DOMAIN newHeaders \cup DOMAIN set |->
        IF k \in DOMAIN newHeaders THEN newHeaders[k] ELSE set[k]]

\* newHeaders = new Headers(response.headers); newHeaders.set(key, value) for
\* every entry of corsHeaders
overlayCors(headers, cors) ==
  LET newHeaders == NewHeaders(headers)
      set == NewHeaders(cors)
  IN [k \in DOMAIN newHeaders \cup DOMAIN set |->
        IF k \in DOMAIN set THEN set[k] ELSE newHeaders[k]]

\* new Response(response.body, { status, statusText, headers: newHeaders })
relay(res, cors) ==
  [status |-> res.status, statusText |-> res.statusText,
   headers |-> overlayCors(res.headers, cors), body |-> res.body]

-----------------------------------------------------------------------------
(* Edge router *)

\* a router that checks the protected mount before the preflight short-circuit
classifyMountFirst(req) ==
  IF StartsWith(req.url.pathname, <<"/", "m", "c", "p">>) THEN "mcp"
  ELSE IF req.method = "OPTIONS" THEN "preflight"
  ELSE IF req.url.pathname = <<"/", "h", "e", "a", "l", "t", "h">> THEN "health"
  ELSE IF StartsWith(req.url.pathname, <<"/", "a", "p", "i">>) THEN "api"
  ELSE IF StartsWith(req.url.pathname, <<"/", "a", "g", "e", "n", "t">>) THEN "agent"
  ELSE "assets"

\* the order of the branches of fetch
classify(req) ==
  IF req.method = "OPTIONS" THEN "preflight"
  ELSE IF req.url.pathname = <<"/", "h", "e", "a", "l", "t", "h">> THEN "health"
  ELSE IF StartsWith(req.url.pathname, <<"/", "a", "p", "i">>) THEN "api"
  ELSE IF StartsWith(req.url.pathname, <<"/", "m", "c", "p">>) THEN "mcp"
  ELSE IF StartsWith(req.url.pathname, <<"/", "a", "g", "e", "n", "t">>) THEN "agent"
  ELSE "assets"

\* a null body; a body the router passes along is a one-chunk text
NoBody == Undefined

preflightResponse(cors) ==
  [status |-> 204, statusText |-> "", headers |-> NewHeaders(cors), body |-> NoBody]

healthResponse(e) ==
  [status |-> 200, statusText |-> "",
   headers |-> NewHeaders("Content-Type" :> <<"application/json">>),
   body |-> <<"{\"status\":\"ok\",\"timestamp\":", "now", ",\"environment\":", e.ENVIRONMENT, "}">>]

-----------------------------------------------------------------------------
(* Inputs *)

Deployments ==
  { [MAHORAGA_API_TOKEN |-> Undefined, CORS_ALLOWED_ORIGINS |-> Undefined,
     ENVIRONMENT |-> "development"],
    [MAHORAGA_API_TOKEN |-> <<>>, CORS_ALLOWED_ORIGINS |-> <<>>,
     ENVIRONMENT |-> "development"],
    [MAHORAGA_API_TOKEN |-> <<"a", "b">>, CORS_ALLOWED_ORIGINS |-> <<"h", "t", "t", "p", "s", ":", "/", "/", "a", ".", "e", "x", "a", "m", "p", "l", "e">>,
     ENVIRONMENT |-> "production"],
    [MAHORAGA_API_TOKEN |-> <<"a", "b">>,
     CORS_ALLOWED_ORIGINS |-> <<"h", "t", "t", "p", "s", ":", "/", "/", "a", ".", "e", "x", "a", "m", "p", "l", "e", ",", " ", "h", "t", "t", "p", "s", ":", "/", "/", "b", ".", "e", "x", "a", "m", "p", "l", "e">>,
     ENVIRONMENT |-> "production"],
    [MAHORAGA_API_TOKEN |-> <<"b">>, CORS_ALLOWED_ORIGINS |-> <<"h", "t", "t", "p", "s", ":", "/", "/", "b", ".", "e", "x", "a", "m", "p", "l", "e", ",", "*">>,
     ENVIRONMENT |-> "staging"] }

Methods == {"GET", "POST", "OPTIONS"}

Prefixes == {<<"/", "a", "p", "i">>, <<"/", "m", "c", "p">>, <<"/", "a", "g", "e", "n", "t">>}

\* what follows the prefix in a pathname
Suffixes == {<<>>, <<"/">>, <<"/", "f", "o", "o">>, <<"f", "o", "o">>, <<"/", "/", "h", "/", "f", "o", "o">>}

Pathnames ==
  {p \o s : p \in Prefixes, s \in Suffixes} \cup {<<"/", "h", "e", "a", "l", "t", "h">>, <<"/", "h", "e", "a", "l", "t", "h", "/", "f", "o", "o">>, <<"/">>, <<"/", "f", "o", "o">>}

Searches == {<<>>, <<"?", "x", "=", "1">>}

\* Origin header values (Undefined: no header)
Origins ==
  { Undefined, <<"h", "t", "t", "p", ":", "/", "/", "l", "o", "c", "a", "l", "h", "o", "s", "t", ":", "5", "1", "7", "3">>, <<"h", "t", "t", "p", ":", "/", "/", "l", "o", "c", "a", "l", "h", "o", "s", "t", ":", "e", "v", "i", "l">>, <<"h", "t", "t", "p", ":", "/", "/", "1", "2", "7", ".", "0", ".", "0", ".", "1", ":", "8", "7", "8", "7">>,
    <<"h", "t", "t", "p", ":", "/", "/", "l", "o", "c", "a", "l", "h", "o", "s", "t", ".", "e", "v", "i", "l", ".", "e", "x", "a", "m", "p", "l", "e">>, <<"h", "t", "t", "p", "s", ":", "/", "/", "a", ".", "e", "x", "a", "m", "p", "l", "e">>, <<"h", "t", "t", "p", "s", ":", "/", "/", "a", ".", "e", "x", "a", "m", "p", "l", "e", ":", "4", "4", "3">>,
    <<"h", "t", "t", "p", "s", ":", "/", "/", "s", "u", "b", ".", "a", ".", "e", "x", "a", "m", "p", "l", "e">>, <<"h", "t", "t", "p", "s", ":", "/", "/", "b", ".", "e", "x", "a", "m", "p", "l", "e">>, <<"*">> }

\* Authorization header values as Headers.get returns them (no leading or
\* trailing whitespace)
Authorizations ==
  { Undefined, <<"B", "e", "a", "r", "e", "r", " ", "a", "b">>, <<"B", "e", "a", "r", "e", "r", " ", "a", "a">>, <<"B", "e", "a", "r", "e", "r", " ", "b">>, <<"B", "e", "a", "r", "e", "r", " ", "a", "b", "b">>, <<"B", "e", "a", "r", "e", "r">>,
    <<"b", "e", "a", "r", "e", "r", " ", "a", "b">>, <<"B", "a", "s", "i", "c", " ", "a", "b">>, <<"a", "b">> }

\* a GET or OPTIONS request has no body
BodiesOf(method) == IF method = "POST" THEN {<<"{\"q\":1}">>} ELSE {NoBody}

RequestsWith(m) ==
  { [method |-> m, url |-> [host |-> <<"g", "a", "t", "e", "w", "a", "y">>, pathname |-> p, search |-> q],
     headers |-> [Origin |-> o, Authorization |-> a], body |-> b] :
       p \in Pathnames, q \in Searches, o \in Origins,
       a \in Authorizations, b \in BodiesOf(m) }

Requests == UNION {RequestsWith(m) : m \in Methods}

\* what the harness, the protocol mount or the asset binding may answer
CollaboratorResponses ==
  { [status |-> 200, statusText |-> "OK",
     headers |-> ("content-type" :> <<"application/json">>), body |-> <<"{}">>],
    [status |-> 200, statusText |-> "OK",
     headers |-> ("access-control-allow-origin" :> <<"*">>) @@ ("x-harness" :> <<"1">>),
     body |-> <<"{}">>],
    [status |-> 404, statusText |-> "Not Found",
     headers |-> ("access-control-allow-origin" :> <<"h", "t", "t", "p", "s", ":", "/", "/", "e", "v", "i", "l", ".", "e", "x", "a", "m", "p", "l", "e">>) @@
                 ("access-control-allow-credentials" :> <<"true">>),
     body |-> <<"not found">>] }

-----------------------------------------------------------------------------
(* fetch *)

\* fetch up to its first await, or to its return when the branch awaits nothing
fetch(req) ==
  /\ phase = "idle"
  /\ request' = req
  /\ downstream' = Undefined
  /\ LET cors == getCorsHeaders(req, env)
         branch == classify(req)
     IN /\ corsHeaders' = cors
        /\ route' = branch
        /\ CASE branch = "preflight" ->
               /\ response' = preflightResponse(cors)
               /\ phase' = "sent"
               /\ UNCHANGED <<forwarded, trace>>
          [] branch = "health" ->
               /\ response' = healthResponse(env)
               /\ phase' = "sent"
               /\ UNCHANGED <<forwarded, trace>>
          [] branch = "api" ->
               /\ forwarded' = apiRequest(req)
               /\ trace' = Append(trace, "stub.fetch")
               /\ phase' = "awaitHarness"
               /\ UNCHANGED response
          [] branch = "mcp" ->
               IF ~isAuthorized(req, env)
               THEN /\ response' = unauthorizedResponse(EmptyObject)
                    /\ trace' = Append(trace, "isAuthorized")
                    /\ phase' = "sent"
                    /\ UNCHANGED forwarded
               ELSE /\ forwarded' = req
                    /\ trace' = trace \o <<"isAuthorized", "MahoragaMcpAgent.fetch">>
                    /\ phase' = "awaitMount"
                    /\ UNCHANGED response
          [] branch = "agent" ->
               /\ forwarded' = agentRequest(req)
               /\ trace' = Append(trace, "stub.fetch")
               /\ phase' = "awaitHarness"
               /\ UNCHANGED response
          [] branch = "assets" ->
               /\ forwarded' = req
               /\ trace' = Append(trace, "ASSETS.fetch")
               /\ phase' = "awaitAssets"
               /\ UNCHANGED response
  /\ UNCHANGED <<env, cronVars, providerVars>>

\* stub.fetch resolves: the proxied response is rebuilt with the CORS headers
harnessReply(res) ==
  /\ phase = "awaitHarness"
  /\ downstream' = res
  /\ response' = relay(res, corsHeaders)
  /\ phase' = "sent"
  /\ UNCHANGED <<env, request, corsHeaders, route, forwarded, trace, cronVars, providerVars>>

\* the protocol mount resolves: fetch returns its response as it is
mountReply(res) ==
  /\ phase = "awaitMount"
  /\ downstream' = res
  /\ response' = res
  /\ phase' = "sent"
  /\ UNCHANGED <<env, request, corsHeaders, route, forwarded, trace, cronVars, providerVars>>

\* env.ASSETS.fetch resolves: fetch returns its response as it is
assetsReply(res) ==
  /\ phase = "awaitAssets"
  /\ downstream' = res
  /\ response' = res
  /\ phase' = "sent"
  /\ UNCHANGED <<env, request, corsHeaders, route, forwarded, trace, cronVars, providerVars>>

\* the invocation ends; the worker holds no state between requests
fetchDone ==
  /\ phase = "sent"
  /\ phase' = "idle"
  /\ request' = Undefined
  /\ corsHeaders' = Undefined
  /\ route' = "none"
  /\ forwarded' = Undefined
  /\ downstream' = Undefined
  /\ response' = Undefined
  /\ trace' = <<>>
  /\ UNCHANGED <<env, cronVars, providerVars>>

-----------------------------------------------------------------------------
(* Scheduled trigger *)

\* the number of scheduled events one run of the model delivers
MaxTriggers == 3

CronIds == {"*/5 * * * *", "0 14 * * 1-5", "0 0 * * *"}

\* handleCronEvent(cronId, env) is called: the job runs from here on and the
\* call evaluates to its promise (the job's index)
handleCronEvent(js, cronId, trigger) ==
  Append(js, [cron |-> cronId, trigger |-> trigger, status |-> "running"])

\* a handler that starts the job and does not hand its promise to the platform
waitUntilSkipped(registered, promise) == registered

\* ctx.waitUntil(promise)
waitUntil(registered, promise) == registered \cup {promise}

\* scheduled: it awaits nothing, so it runs to its return in one step
scheduled(event) ==
  /\ Len(triggers) < MaxTriggers
  /\ LET cronId == event.cron
         started == handleCronEvent(jobs, cronId, Len(triggers) + 1)
         promise == Len(started)
     IN /\ jobs' = started
        /\ pending' = waitUntil(pending, promise)
        /\ triggers' = Append(triggers, [cron |-> cronId, returned |-> TRUE])
  /\ UNCHANGED <<routerVars, providerVars>>

\* the job behind a registered promise finishes, or fails
jobSettles(j, how) ==
  /\ j \in 1..Len(jobs)
  /\ jobs[j].status = "running"
  /\ jobs' = [jobs EXCEPT ![j].status = how]
  /\ pending' = pending \ {j}
  /\ UNCHANGED <<triggers, routerVars, providerVars>>

-----------------------------------------------------------------------------
(* Z.AI completion provider *)

(* A decoded JSON value is a record [t, v]: t names its JavaScript type and v *)
(* holds it (the characters of a string, the fields of an object, the       *)
(* elements of an array).                                                    *)
JUndefined == [t |-> "undefined", v |-> <<>>]
JNull == [t |-> "null", v |-> <<>>]
JString(s) == [t |-> "string", v |-> s]
JNumber(n) == [t |-> "number", v |-> n]
JObject(fields) == [t |-> "object", v |-> fields]
JArray(elems) == [t |-> "array", v |-> elems]

\* x == null
Nullish(x) == x.t \in {"undefined", "null"}

\* x.key, for x not nullish
Prop(x, key) == IF x.t = "object" /\ key \in DOMAIN x.v THEN x.v[key] ELSE JUndefined

\* x?.key
OptProp(x, key) == IF Nullish(x) THEN JUndefined ELSE Prop(x, key)

\* x[0], for x not nullish
First(x) == IF x.t = "array" /\ Len(x.v) > 0 THEN x.v[1] ELSE JUndefined

\* x ?? d
Coalesce(x, d) == IF Nullish(x) THEN d ELSE x

DefaultModel == <<"G", "L", "M", "-", "4", ".", "7">>

DefaultBaseUrl == <<"h", "t", "t", "p", "s", ":", "/", "/", "a", "p", "i", ".", "z", ".", "a", "i", "/", "a", "p", "i", "/", "c", "o", "d", "i", "n", "g", "/", "p", "a", "a", "s", "/", "v", "4">>

\* 1024; a number the provider only passes along is a one-chunk text
DefaultMaxTokens == <<"1024">>

\* 0.7, the default temperature
DefaultTemperature == <<"0.7">>

\* .replace(/\/+$/, "")
RECURSIVE StripTrailingSlashes(_)
StripTrailingSlashes(s) ==
  IF s # <<>> /\ s[Len(s)] = "/" THEN StripTrailingSlashes(SubSeq(s, 1, Len(s) - 1)) ELSE s

\* x ?? d on an optional string
OrElse(x, d) == IF x = Undefined THEN d ELSE x

isNonZAIModel(lower) ==
  Includes(lower, <<"g", "p", "t">>) \/ Includes(lower, <<"c", "l", "a", "u", "d", "e">>) \/ Includes(lower, <<"g", "e", "m", "i", "n", "i">>)

\* the constructor of the provider that normalizes model names
constructorV1(config) ==
  LET providedModel == IF config.model = Undefined THEN <<>> ELSE ToLowerCase(config.model)
  IN [version |-> 1,
      apiKey |-> config.apiKey,
      model |-> IF isNonZAIModel(providedModel) THEN DefaultModel
                ELSE OrElse(config.model, DefaultModel),
      baseUrl |-> StripTrailingSlashes(Trim(OrElse(config.baseUrl, DefaultBaseUrl)))]

\* the constructor of the provider that forwards model names
constructorV2(config) ==
  [version |-> 2,
   apiKey |-> config.apiKey,
   model |-> OrElse(config.model, DefaultModel),
   baseUrl |-> StripTrailingSlashes(Trim(OrElse(config.baseUrl, DefaultBaseUrl)))]

\* normalizeModel of the first provider; !model holds for undefined and ""
normalizeModel(this, model) ==
  IF model = Undefined \/ model = <<>> THEN this.model
  ELSE IF isNonZAIModel(ToLowerCase(model)) THEN this.model
  ELSE model

\* body.model
bodyModel(this, params) ==
  IF this.version = 1 THEN normalizeModel(this, params.model)
  ELSE OrElse(params.model, this.model)

\* the request body; response_format is a property only when params has one
requestBody(this, params) ==
  LET base == [model |-> bodyModel(this, params),
               messages |-> params.messages,
               temperature |-> OrElse(params.temperature, DefaultTemperature),
               max_tokens |-> OrElse(params.max_tokens, DefaultMaxTokens)]
  IN IF params.response_format # Undefined
     THEN [model |-> base.model, messages |-> base.messages,
           temperature |-> base.temperature, max_tokens |-> base.max_tokens,
           response_format |-> params.response_format]
     ELSE base

\* fetch(`${this.baseUrl}/chat/completions`, { method, headers, body })
wireRequest(this, params) ==
  [url |-> this.baseUrl \o <<"/", "c", "h", "a", "t", "/", "c", "o", "m", "p", "l", "e", "t", "i", "o", "n", "s">>,
   method |-> "POST",
   headers |-> [ContentType |-> <<"application/json">>,
                Authorization |-> <<"B", "e", "a", "r", "e", "r", " ">> \o this.apiKey],
   body |-> requestBody(this, params)]

Digit == <<"0", "1", "2", "3", "4", "5", "6", "7", "8", "9">>

\* the decimal text of a number in a template literal
RECURSIVE NumberToString(_)
NumberToString(n) == IF n < 10 THEN <<Digit[n + 1]>> ELSE NumberToString(n \div 10) \o <<Digit[(n % 10) + 1]>>

\* Response.ok
Ok(res) == res.status >= 200 /\ res.status <= 299

\* an error message that names the status and drops the body
providerErrorStatusOnly(status, errorText) ==
  [code |-> "PROVIDER_ERROR",
   message |-> <<"Z", ".", "A", "I", " ", "A", "P", "I", " ", "e", "r", "r", "o", "r", " ", "(">> \o NumberToString(status) \o <<")">>]

\* createError(ErrorCode.PROVIDER_ERROR, `Z.AI API error (${response.status}): ${errorText}`)
providerError(status, errorText) ==
  [code |-> "PROVIDER_ERROR",
   message |-> <<"Z", ".", "A", "I", " ", "A", "P", "I", " ", "e", "r", "r", "o", "r", " ", "(">> \o NumberToString(status) \o <<")", ":", " ">> \o errorText]

Threw(error) == [kind |-> "threw", error |-> error, value |-> JUndefined]

Returned(value) == [kind |-> "returned", error |-> <<>>, value |-> value]

TypeError == [code |-> "TypeError", message |-> <<>>]

SyntaxError == [code |-> "SyntaxError", message |-> <<>>]

\* data.choices[0]?.message?.content ?? ""
contentOf(data) ==
  Coalesce(OptProp(OptProp(First(Prop(data, "choices")), "message"), "content"), JString(<<>>))

\* what follows `await response.json()`: the result, or the error a property
\* read of undefined raises
decode(res) ==
  IF res.json.t = "invalid" THEN Threw(SyntaxError)
  ELSE LET data == res.json IN
    IF Nullish(data) THEN Threw(TypeError)
    ELSE IF Nullish(Prop(data, "choices")) THEN Threw(TypeError)
    ELSE IF Nullish(Prop(data, "usage")) THEN Threw(TypeError)
    ELSE Returned([content |-> contentOf(data),
                   usage |-> [prompt_tokens |-> Prop(Prop(data, "usage"), "prompt_tokens"),
                              completion_tokens |-> Prop(Prop(data, "usage"), "completion_tokens"),
                              total_tokens |-> Prop(Prop(data, "usage"), "total_tokens")]])

\* !content || content.trim() === ""
emptyContent(content) == content.v = <<>> \/ Trim(content.v) = <<>>

\* the console levels the first provider writes after a 2xx answer
decodeDiagnostics(this, res) ==
  IF this.version # 1 \/ res.json.t = "invalid" THEN {}
  ELSE LET data == res.json IN
    IF Nullish(data) \/ Nullish(Prop(data, "choices")) THEN {}
    ELSE {"log"} \cup
      (IF emptyContent(contentOf(data))
       THEN {"error"} \cup
            (IF ~Nullish(OptProp(OptProp(First(Prop(data, "choices")), "message"), "reasoning_content"))
                /\ OptProp(OptProp(First(Prop(data, "choices")), "message"), "reasoning_content").v # <<>>
                /\ OptProp(First(Prop(data, "choices")), "finish_reason") = JString(<<"length">>)
             THEN {"warn"} ELSE {})
       ELSE {})

-----------------------------------------------------------------------------
(* Provider inputs *)

ConfigModels == {Undefined, <<"z", "a", "i", "-", "d", "e", "f", "a", "u", "l", "t">>, <<"z", "a", "i", "-", "g", "p", "t", "-", "4">>, <<"C", "l", "a", "u", "d", "e", "-", "3">>, <<"c", "u", "s", "t", "o", "m", "-", "l", "l", "m", "-", "7">>}

BaseUrls == {Undefined, <<" ", "h", "t", "t", "p", "s", ":", "/", "/", "z", "a", "i", ".", "t", "e", "s", "t", "/", "v", "4", "/", "/", " ">>}

Configs ==
  {[apiKey |-> <<"z", "a", "i", "-", "t", "e", "s", "t">>, model |-> m, baseUrl |-> u] : m \in ConfigModels, u \in BaseUrls}

ParamModels ==
  {Undefined, <<>>, <<"g", "p", "t", "-", "4">>, <<"z", "a", "i", "-", "g", "p", "t", "-", "4">>, <<"c", "u", "s", "t", "o", "m", "-", "l", "l", "m", "-", "7">>, <<"G", "E", "M", "I", "N", "I", "-", "p", "r", "o">>}

Params ==
  {[model |-> m, messages |-> <<[role |-> "user", content |-> "Test"]>>,
    temperature |-> t, max_tokens |-> k, response_format |-> f] :
      m \in ParamModels, t \in {Undefined, <<"0">>}, k \in {Undefined, <<"256">>},
      f \in {Undefined, <<"json_object">>}}

Usage == JObject([prompt_tokens |-> JNumber(10), completion_tokens |-> JNumber(5),
                  total_tokens |-> JNumber(15)])

Choice(message, finish) ==
  JObject([message |-> JObject(message), finish_reason |-> JString(<<finish>>)])

\* the choices member of the envelopes the backend answers with
ChoicesList ==
  << JArray(<<Choice([role |-> JString(<<"assistant">>), content |-> JString(<<"H", "i">>)], "stop")>>),
     JArray(<<JObject([message |-> JObject([role |-> JString(<<"assistant">>)])])>>),
     JArray(<<JObject([message |-> JObject(EmptyObject)])>>),
     JArray(<<JObject(EmptyObject)>>),
     JArray(<<Choice([content |-> JString(<<>>), reasoning_content |-> JString(<<"h", "m">>)], "length")>>),
     JArray(<<Choice([content |-> JString(<<" ", " ">>)], "stop")>>),
     JArray(<<Choice([content |-> JNull], "stop")>>),
     JArray(<<>>),
     JUndefined >>

\* the usage member of the envelopes
UsageList == << Usage, JObject(EmptyObject), JUndefined >>

\* {id, choices, usage}, a member left out when it is undefined
Envelope(choices, usage) ==
  JObject([k \in {"id"} \cup (IF Nullish(choices) THEN {} ELSE {"choices"})
                        \cup (IF Nullish(usage) THEN {} ELSE {"usage"}) |->
             CASE k = "id" -> JString(<<"zai-chatcmpl-1">>)
               [] k = "choices" -> choices
               [] k = "usage" -> usage])

InvalidJson == [t |-> "invalid", v |-> <<>>]

\* a 2xx answer with the given body
OkResponse(json) == [status |-> 200, text |-> <<>>, json |-> json]

\* non-2xx answers: status and body text
ErrorResponses ==
  {[status |-> s, text |-> b, json |-> InvalidJson] :
     s \in {401, 404, 500, 503}, b \in {<<"b", "o", "o", "m">>, <<"I", "n", "v", "a", "l", "i", "d", " ", "A", "P", "I", " ", "k", "e", "y">>, <<>>}}

-----------------------------------------------------------------------------
(* Provider actions *)

\* no provider has been constructed
NoProvider == [version |-> 0, apiKey |-> <<>>, model |-> <<>>, baseUrl |-> <<>>]

\* no call of complete is under way
NoCall == [phase |-> "idle", params |-> Undefined]

\* no HTTP response has arrived
NoReply == [status |-> 0, text |-> <<>>, json |-> InvalidJson]

\* complete has neither returned nor thrown
NoOutcome == [kind |-> "none", error |-> <<>>, value |-> JUndefined]

\* createZAIProvider(config) / new ZAIProvider(config), either provider
construct(version, config) ==
  /\ provider.version = 0
  /\ provider' = IF version = 1 THEN constructorV1(config) ELSE constructorV2(config)
  /\ UNCHANGED <<call, wire, reply, outcome, diagnostics, routerVars, cronVars>>

\* complete up to `await fetch(...)`
complete(params) ==
  /\ provider.version # 0
  /\ call.phase = "idle"
  /\ call' = [phase |-> "awaitFetch", params |-> params]
  /\ wire' = Append(wire, wireRequest(provider, params))
  /\ diagnostics' = IF provider.version = 1 THEN {"log"} ELSE {}
  /\ UNCHANGED <<provider, reply, outcome, routerVars, cronVars>>

\* the backend answers with a non-2xx status
backendError(res) ==
  /\ call.phase = "awaitFetch"
  /\ ~Ok(res)
  /\ reply' = res
  /\ outcome' = Threw(providerError(res.status, res.text))
  /\ diagnostics' = IF provider.version = 1 THEN diagnostics \cup {"error"} ELSE diagnostics
  /\ call' = [call EXCEPT !.phase = "settled"]
  /\ UNCHANGED <<provider, wire, routerVars, cronVars>>

\* the backend answers 2xx
backendOk(res) ==
  /\ call.phase = "awaitFetch"
  /\ Ok(res)
  /\ reply' = res
  /\ outcome' = decode(res)
  /\ diagnostics' = diagnostics \cup decodeDiagnostics(provider, res)
  /\ call' = [call EXCEPT !.phase = "settled"]
  /\ UNCHANGED <<provider, wire, routerVars, cronVars>>

\* fetch rejects: the rejection passes through complete
transportFailure ==
  /\ call.phase = "awaitFetch"
  /\ reply' = NoReply
  /\ outcome' = Threw(TypeError)
  /\ call' = [call EXCEPT !.phase = "settled"]
  /\ UNCHANGED <<provider, wire, diagnostics, routerVars, cronVars>>

\* the caller has the outcome; the provider is ready for the next call
completeDone ==
  /\ call.phase = "settled"
  /\ call' = NoCall
  /\ wire' = <<>>
  /\ reply' = NoReply
  /\ outcome' = NoOutcome
  /\ diagnostics' = {}
  /\ UNCHANGED <<provider, routerVars, cronVars>>

-----------------------------------------------------------------------------
(* Specifications *)

\* nothing has been received, scheduled or constructed
Idle ==
  /\ phase = "idle"
  /\ request = Undefined
  /\ corsHeaders = Undefined
  /\ route = "none"
  /\ forwarded = Undefined
  /\ downstream = Undefined
  /\ response = Undefined
  /\ trace = <<>>
  /\ triggers = <<>>
  /\ jobs = <<>>
  /\ pending = {}
  /\ provider = NoProvider
  /\ call = NoCall
  /\ wire = <<>>
  /\ reply = NoReply
  /\ outcome = NoOutcome
  /\ diagnostics = {}

Init == env \in Deployments /\ Idle

\* the router serving requests
Next ==
  \/ phase = "idle" /\ \E req \in Requests : fetch(req)
  \/ \E res \in CollaboratorResponses : harnessReply(res)
  \/ \E res \in CollaboratorResponses : mountReply(res)
  \/ \E res \in CollaboratorResponses : assetsReply(res)
  \/ fetchDone

Spec == Init /\ [][Next]_vars

\* the platform delivering scheduled events
NextCron ==
  \/ \E c \in CronIds : scheduled([cron |-> c])
  \/ \E j \in 1..MaxTriggers, how \in {"fulfilled", "rejected"} : jobSettles(j, how)

\* one deployment: scheduled and the provider read nothing of env
InitOne == env = [MAHORAGA_API_TOKEN |-> Undefined, CORS_ALLOWED_ORIGINS |-> Undefined,
                  ENVIRONMENT |-> "development"] /\ Idle

SpecCron == InitOne /\ [][NextCron]_vars

\* a caller constructing a provider and calling complete
NextProvider ==
  \/ \E v \in {1, 2}, config \in Configs : construct(v, config)
  \/ \E params \in Params : complete(params)
  \/ \E res \in ErrorResponses : backendError(res)
  \/ \E i \in 1..Len(ChoicesList), j \in 1..Len(UsageList) :
       backendOk(OkResponse(Envelope(ChoicesList[i], UsageList[j])))
  \/ \E json \in {InvalidJson, JNull} : backendOk(OkResponse(json))
  \/ transportFailure
  \/ completeDone

SpecProvider == InitOne /\ [][NextProvider]_vars

-----------------------------------------------------------------------------
(* Properties of the router *)

\* an invocation of fetch is under way or has answered
Received == phase # "idle"

MountInvoked == ArrayIncludes(trace, "MahoragaMcpAgent.fetch")

\* a non-empty secret is configured and the Authorization header is exactly
\* "Bearer " followed by it
BearerOfSecret ==
  /\ env.MAHORAGA_API_TOKEN # Undefined
  /\ env.MAHORAGA_API_TOKEN # <<>>
  /\ request.headers.Authorization = <<"B", "e", "a", "r", "e", "r", " ">> \o env.MAHORAGA_API_TOKEN

McpRequest ==
  Received /\ request.method # "OPTIONS" /\ StartsWith(request.url.pathname, <<"/", "m", "c", "p">>)

\* C1: for a non-OPTIONS request under /mcp the protocol mount is invoked if
\* and only if a non-empty secret is configured and the Authorization header is
\* "Bearer " followed by that secret; otherwise the answer is 401 and the mount
\* is not invoked.
C1_MountIffBearerOfSecret ==
  McpRequest =>
    /\ MountInvoked <=> BearerOfSecret
    /\ ~BearerOfSecret => phase = "sent" /\ response.status = 401 /\ ~MountInvoked

\* an authorized /mcp request has been handed to the mount and answered
C1_Witness ==
  McpRequest /\ BearerOfSecret /\ MountInvoked /\ phase = "sent" /\ response = downstream

-----------------------------------------------------------------------------

\* the trimmed comma-separated tokens of the allow-list: the maximal
\* comma-free stretches of the text, each trimmed
ListTokens(list) ==
  IF list = Undefined THEN {}
  ELSE { Trim(SubSeq(list, i, j)) : <<i, j>> \in
           { <<a, b>> \in (1..(Len(list) + 1)) \X (0..Len(list)) :
               /\ b >= a - 1
               /\ a = 1 \/ list[a - 1] = ","
               /\ b = Len(list) \/ list[b + 1] = ","
               /\ \A k \in a..b : list[k] # "," } }

HasLoopbackPrefix(origin) ==
  StartsWith(origin, <<"h", "t", "t", "p", ":", "/", "/", "l", "o", "c", "a", "l", "h", "o", "s", "t", ":">>) \/ StartsWith(origin, <<"h", "t", "t", "p", ":", "/", "/", "1", "2", "7", ".", "0", ".", "0", ".", "1", ":">>)

Digits == {"0", "1", "2", "3", "4", "5", "6", "7", "8", "9"}

\* http://localhost:<port> or http://127.0.0.1:<port>
HasLoopbackForm(origin) ==
  \E p \in {<<"h", "t", "t", "p", ":", "/", "/", "l", "o", "c", "a", "l", "h", "o", "s", "t", ":">>, <<"h", "t", "t", "p", ":", "/", "/", "1", "2", "7", ".", "0", ".", "0", ".", "1", ":">>} :
    /\ StartsWith(origin, p)
    /\ Len(origin) > Len(p)
    /\ \A k \in (Len(p) + 1)..Len(origin) : origin[k] \in Digits

\* the request's origin, "" when it sends none
RequestOrigin ==
  IF request.headers.Origin = Undefined THEN <<>> ELSE request.headers.Origin

\* the policy as the resolver applies it
PolicyAllows ==
  \/ HasLoopbackPrefix(RequestOrigin)
  \/ RequestOrigin \in ListTokens(env.CORS_ALLOWED_ORIGINS)
  \/ <<"*">> \in ListTokens(env.CORS_ALLOWED_ORIGINS)

\* the headers resolved for the request, under the names a Response carries
ResolvedCors ==
  IF PolicyAllows
  THEN ("access-control-allow-origin" :> RequestOrigin) @@
       ("access-control-allow-methods" :> <<"GET, POST, PUT, DELETE, OPTIONS">>) @@
       ("access-control-allow-headers" :> <<"Content-Type, Authorization">>) @@
       ("access-control-max-age" :> <<"86400">>)
  ELSE EmptyObject

CarriesResolvedCors ==
  \A k \in DOMAIN ResolvedCors :
    k \in DOMAIN response.headers /\ response.headers[k] = ResolvedCors[k]

Unauthorized401 == route = "mcp" /\ ~MountInvoked

\* C2 as stated: every response other than the 401, /health and the preflight
\* carries the resolved CORS headers, authorized /mcp and static-asset
\* responses included.
C2_EveryOtherResponseCarriesCors ==
  phase = "sent" /\ route \notin {"preflight", "health"} /\ ~Unauthorized401
    => CarriesResolvedCors

\* C2: every /api and /agent response carries the CORS headers resolved from
\* the original request, which override a same-named header of the harness;
\* status, status text, body and the other headers are the harness's.  An
\* authorized /mcp response and a static-asset response are returned as the
\* collaborator produced them; the preflight carries the resolved headers only,
\* /health and the 401 carry Content-Type only.
C2_ProxiedResponseCarriesCors ==
  phase = "sent" =>
    /\ route \in {"api", "agent"} =>
         /\ CarriesResolvedCors
         /\ response.status = downstream.status
         /\ response.statusText = downstream.statusText
         /\ response.body = downstream.body
         /\ DOMAIN response.headers = DOMAIN downstream.headers \cup DOMAIN ResolvedCors
         /\ \A k \in DOMAIN downstream.headers \ DOMAIN ResolvedCors :
              response.headers[k] = downstream.headers[k]
    /\ route = "assets" \/ (route = "mcp" /\ MountInvoked) => response = downstream
    /\ route = "preflight" => response.headers = ResolvedCors
    /\ route = "health" \/ Unauthorized401 => DOMAIN response.headers = {"content-type"}

\* an /agent response whose harness set its own Access-Control-Allow-Origin
C2_Witness ==
  /\ phase = "sent"
  /\ route = "agent"
  /\ PolicyAllows
  /\ "access-control-allow-origin" \in DOMAIN downstream.headers
  /\ downstream.headers["access-control-allow-origin"] # RequestOrigin
  /\ response.headers["access-control-allow-origin"] = RequestOrigin

-----------------------------------------------------------------------------

AccessControlNames ==
  {"access-control-allow-origin", "access-control-allow-methods",
   "access-control-allow-headers", "access-control-max-age",
   "access-control-allow-credentials"}

\* the origin is not loopback, not in the allow-list, and the list has no "*"
OriginRejected == Received /\ ~PolicyAllows

\* fetch built the response itself
RouterMade == route \in {"preflight", "health"} \/ Unauthorized401

\* C3 as stated: for a rejected origin no response carries an Access-Control-*
\* header, whatever the collaborator returned.
C3_RejectedOriginNoAccessControl ==
  OriginRejected /\ phase = "sent" => DOMAIN response.headers \cap AccessControlNames = {}

\* C3: for a rejected origin the resolver yields no header and the router adds
\* none: the preflight, /health and 401 responses carry no Access-Control-*
\* header, and a relayed response carries exactly the Access-Control-* headers
\* its collaborator returned.
C3_RejectedOriginAddsNothing ==
  OriginRejected =>
    /\ DOMAIN corsHeaders = {}
    /\ phase = "sent" /\ RouterMade => DOMAIN response.headers \cap AccessControlNames = {}
    /\ phase = "sent" /\ ~RouterMade =>
         /\ DOMAIN response.headers \cap AccessControlNames
              = DOMAIN downstream.headers \cap AccessControlNames
         /\ \A k \in DOMAIN response.headers \cap AccessControlNames :
              response.headers[k] = downstream.headers[k]

\* a proxied response to a rejected origin, with no Access-Control-* header
C3_Witness ==
  /\ OriginRejected
  /\ request.headers.Origin = <<"h", "t", "t", "p", "s", ":", "/", "/", "a", ".", "e", "x", "a", "m", "p", "l", "e", ":", "4", "4", "3">>
  /\ phase = "sent"
  /\ route = "api"
  /\ DOMAIN response.headers \cap AccessControlNames = {}

-----------------------------------------------------------------------------

\* the resolver emitted headers
Allowed == DOMAIN corsHeaders # {}

\* C4 as stated: allowed if and only if the origin has the loopback form with
\* a port, or is one of the trimmed tokens, or the list has "*"; the emitted
\* Access-Control-Allow-Origin is the request origin and never "*".
C4_AllowedIffPortFormOrListed ==
  Received =>
    /\ Allowed <=> \/ HasLoopbackForm(RequestOrigin)
                   \/ RequestOrigin \in ListTokens(env.CORS_ALLOWED_ORIGINS)
                   \/ <<"*">> \in ListTokens(env.CORS_ALLOWED_ORIGINS)
    /\ Allowed => /\ corsHeaders["Access-Control-Allow-Origin"] = RequestOrigin
                  /\ corsHeaders["Access-Control-Allow-Origin"] # <<"*">>

\* C4: allowed if and only if the origin begins with http://localhost: or
\* http://127.0.0.1: (what follows is not examined), or is one of the trimmed
\* tokens, or the list has "*"; with the list "https://a.example" the only
\* origin without a loopback prefix that is allowed is "https://a.example"; the
\* emitted Access-Control-Allow-Origin is the request origin.
C4_AllowedIffPrefixOrListed ==
  Received =>
    /\ Allowed <=> \/ HasLoopbackPrefix(RequestOrigin)
                   \/ RequestOrigin \in ListTokens(env.CORS_ALLOWED_ORIGINS)
                   \/ <<"*">> \in ListTokens(env.CORS_ALLOWED_ORIGINS)
    /\ env.CORS_ALLOWED_ORIGINS = <<"h", "t", "t", "p", "s", ":", "/", "/", "a", ".", "e", "x", "a", "m", "p", "l", "e">> /\ ~HasLoopbackPrefix(RequestOrigin)
         => (Allowed <=> RequestOrigin = <<"h", "t", "t", "p", "s", ":", "/", "/", "a", ".", "e", "x", "a", "m", "p", "l", "e">>)
    /\ Allowed => /\ corsHeaders["Access-Control-Allow-Origin"] = RequestOrigin
                  /\ corsHeaders["Access-Control-Allow-Methods"] = <<"GET, POST, PUT, DELETE, OPTIONS">>
                  /\ corsHeaders["Access-Control-Allow-Headers"] = <<"Content-Type, Authorization">>
                  /\ corsHeaders["Access-Control-Max-Age"] = <<"86400">>

\* an origin allowed because it equals a token that had to be trimmed
C4_Witness ==
  /\ Received
  /\ env.CORS_ALLOWED_ORIGINS = <<"h", "t", "t", "p", "s", ":", "/", "/", "a", ".", "e", "x", "a", "m", "p", "l", "e", ",", " ", "h", "t", "t", "p", "s", ":", "/", "/", "b", ".", "e", "x", "a", "m", "p", "l", "e">>
  /\ request.headers.Origin = <<"h", "t", "t", "p", "s", ":", "/", "/", "b", ".", "e", "x", "a", "m", "p", "l", "e">>
  /\ Allowed
  /\ corsHeaders["Access-Control-Allow-Origin"] = <<"h", "t", "t", "p", "s", ":", "/", "/", "b", ".", "e", "x", "a", "m", "p", "l", "e">>

-----------------------------------------------------------------------------

\* C5: an OPTIONS request to any path, with any or no Authorization header, is
\* answered 204 with no body and only the resolved CORS headers; the guard is
\* not evaluated and no collaborator is invoked.
C5_PreflightShortCircuits ==
  Received /\ request.method = "OPTIONS" =>
    /\ phase = "sent"
    /\ route = "preflight"
    /\ response.status = 204
    /\ response.body = NoBody
    /\ response.headers = ResolvedCors
    /\ trace = <<>>

\* OPTIONS under the protected mount, without credentials, from a dev origin
C5_Witness ==
  /\ phase = "sent"
  /\ request.method = "OPTIONS"
  /\ StartsWith(request.url.pathname, <<"/", "m", "c", "p">>)
  /\ request.headers.Authorization = Undefined
  /\ request.headers.Origin = <<"h", "t", "t", "p", ":", "/", "/", "l", "o", "c", "a", "l", "h", "o", "s", "t", ":", "5", "1", "7", "3">>
  /\ response.status = 204
  /\ response.headers["access-control-allow-origin"] = <<"h", "t", "t", "p", ":", "/", "/", "l", "o", "c", "a", "l", "h", "o", "s", "t", ":", "5", "1", "7", "3">>

-----------------------------------------------------------------------------

\* the prefix the branch taken matched
MatchedPrefix == IF route = "api" THEN <<"/", "a", "p", "i">> ELSE <<"/", "a", "g", "e", "n", "t">>

OtherPrefix == IF route = "api" THEN <<"/", "a", "g", "e", "n", "t">> ELSE <<"/", "a", "p", "i">>

\* what follows the matched prefix
Suffix == Slice(request.url.pathname, Len(MatchedPrefix))

\* the same request under the other prefix
Alias == [request EXCEPT !.url.pathname = OtherPrefix \o Suffix]

\* the request fetch derives for an inbound request of either proxied class
derivedFor(req) ==
  IF classify(req) = "api" THEN apiRequest(req) ELSE agentRequest(req)

Proxied == Received /\ route \in {"api", "agent"}

SameUnderBothPrefixes ==
  /\ classify(Alias) \in {"api", "agent"} \ {route}
  /\ derivedFor(Alias) = forwarded
  /\ forwarded.url.search = request.url.search
  /\ forwarded.method = request.method
  /\ forwarded.headers = request.headers
  /\ forwarded.body = request.body

-----------------------------------------------------------------------------
(* Properties of the provider *)

Settled == call.phase = "settled"

\* the backend answered, with a status outside 200..299
NonOkReply == Settled /\ reply.status # 0 /\ ~(reply.status >= 200 /\ reply.status <= 299)

\* the backend answered 2xx
OkReply == Settled /\ reply.status >= 200 /\ reply.status <= 299

\* C7: on a non-2xx answer complete throws an error with code PROVIDER_ERROR
\* whose message contains the HTTP status and the raw body text; it returns no
\* result and has issued exactly one network call.
C7_NonOkRaisesProviderError ==
  NonOkReply =>
    /\ outcome.kind = "threw"
    /\ outcome.error.code = "PROVIDER_ERROR"
    /\ Includes(outcome.error.message, NumberToString(reply.status))
    /\ Includes(outcome.error.message, reply.text)
    /\ Len(wire) = 1

\* status 500 with body "boom"
C7_Witness ==
  /\ NonOkReply
  /\ reply.status = 500
  /\ reply.text = <<"b", "o", "o", "m">>
  /\ outcome.kind = "threw"
  /\ Includes(outcome.error.message, <<"5", "0", "0">>)
  /\ Includes(outcome.error.message, <<"b", "o", "o", "m">>)

\* the envelope's choices member is an empty sequence
ChoicesEmpty ==
  Prop(reply.json, "choices").t = "array" /\ Len(Prop(reply.json, "choices").v) = 0

\* the first choice has no content at some level
ContentMissing ==
  /\ Prop(reply.json, "choices").t = "array"
  /\ Len(Prop(reply.json, "choices").v) > 0
  /\ Nullish(OptProp(OptProp(First(Prop(reply.json, "choices")), "message"), "content"))

\* the envelope is not valid JSON, is not an object with a choices sequence,
\* or its choices sequence is empty
MalformedEnvelope ==
  \/ reply.json.t = "invalid"
  \/ Prop(reply.json, "choices").t # "array"
  \/ ChoicesEmpty

\* C8: on a 2xx answer complete raises only when the envelope is not valid JSON
\* or its choices sequence is empty; a missing content field yields content ""
\* without raising, and absent usage data is not a raised error.
C8_RaisesOnlyOnMalformedEnvelope ==
  OkReply =>
    /\ outcome.kind = "threw" => MalformedEnvelope
    /\ reply.json.t # "invalid" /\ ContentMissing =>
         outcome.kind = "returned" /\ outcome.value.content = JString(<<>>)

\* the fragments of rival backend families
Denylist == {<<"g", "p", "t">>, <<"c", "l", "a", "u", "d", "e">>, <<"g", "e", "m", "i", "n", "i">>}

ContainsRivalFragment(model) == \E f \in Denylist : Includes(ToLowerCase(model), f)

\* the caller named a model
ModelSupplied == call.params.model # Undefined /\ call.params.model # <<>>

\* C10: a caller-supplied model containing a rival fragment is replaced by the
\* adapter's own model, any other supplied model is transmitted unchanged, and
\* the transmitted model never contains a denylisted fragment.
C10_TransmittedModelNormalized ==
  call.phase # "idle" =>
    LET sent == wire[1].body.model IN
    /\ ModelSupplied /\ ContainsRivalFragment(call.params.model) => sent = provider.model
    /\ ModelSupplied /\ ~ContainsRivalFragment(call.params.model) => sent = call.params.model
    /\ ~ContainsRivalFragment(sent)

\* C11: a model supplied in the parameters of complete is the model of the
\* transmitted request body, whatever model the provider was configured with;
\* the provider's own model is sent when the parameters carry no model.
C11_SuppliedModelTransmitted ==
  call.phase # "idle" =>
    LET sent == wire[1].body.model IN
    /\ ModelSupplied => sent = call.params.model
    /\ call.params.model = Undefined => sent = provider.model

-----------------------------------------------------------------------------
(* Properties of the scheduled trigger *)

\* the jobs started for the t-th scheduled event
JobsOf(t) == {j \in 1..Len(jobs) : jobs[j].trigger = t}

\* every returned trigger started exactly one job, under its cron identifier,
\* and a job that still runs is registered with the execution context
HandedOff ==
  \A t \in 1..Len(triggers) :
    /\ triggers[t].returned
    /\ Cardinality(JobsOf(t)) = 1
    /\ \A j \in JobsOf(t) :
         /\ jobs[j].cron = triggers[t].cron
         /\ jobs[j].status = "running" => j \in pending

\* the step in which scheduled returns leaves its job running and registered
ReturnsWhileJobRuns ==
  Len(triggers') > Len(triggers) =>
    \E j \in 1..Len(jobs') :
      /\ jobs'[j].trigger = Len(triggers')
      /\ jobs'[j].status = "running"
      /\ j \in pending'
      /\ j \notin pending

\* C9: scheduled hands the job, under the trigger's cron identifier, to the
\* job handler exactly once and registers its promise with waitUntil before it
\* returns, and it returns while the job is still running.
C9_HandoffBeforeReturn == []HandedOff /\ [][ReturnsWhileJobRuns]_vars

\* scheduled has returned and its job has not finished
C9_Witness ==
  \E t \in 1..Len(triggers) :
    triggers[t].returned /\ \E j \in JobsOf(t) : jobs[j].status = "running" /\ j \in pending

====
